---- MODULE Spec2Model ----
(***************************************************************************)
(* Model of src/app1.py: a Streamlit script that loads a cached random-    *)
(* forest classifier, builds a one-row feature record from 15 widgets,     *)
(* and, when the "Predict & Explain" button fires, shows the positive-     *)
(* class probability, a risk banner and a SHAP waterfall explanation.      *)
(*                                                                         *)
(* Units: probabilities and SHAP contributions are integers in millionths  *)
(* (1000000 = 1.0); the three float widgets (temperature, WBC, Albumin)    *)
(* are integers in tenths (368 = 36.8).  Python indices are kept 0-based   *)
(* where the script indexes (samples, classes); feature positions are      *)
(* 1-based sequence positions.                                             *)
(***************************************************************************)
EXTENDS Integers, Sequences, FiniteSets, TLC

VARIABLES
    modelFile,    \* what joblib.load("rf_model.pkl") yields: the classifier's feature_names_in_
    cache,        \* st.cache_resource entry of load_model: <<>> (empty) or <<classifier object>>
    heap,         \* every object constructed so far in the process: [kind, id, wraps]
    widgets,      \* current widget values of the session
    used,         \* user interactions so far (widget edits and button clicks)
    button,       \* what st.button returned in the current script run
    model,        \* script global `model` (<<>> before the first run)
    input_data,   \* script global `input_data` (<<>> before the first run)
    pc,           \* position of the current script run
    prob,         \* <<>> or <<p>>: local `prob`
    metric,       \* <<>> or <<shown st.metric>>
    banner,       \* <<>> or <<shown st.error / st.warning / st.success>>
    explainer,    \* <<>> or <<explainer object>>
    shap_exp,     \* <<>> or <<Explanation>>
    shap_single,  \* <<>> or <<sliced Explanation>>
    plot,         \* <<>> or <<figure handed to st.pyplot>>
    calls,        \* library calls made by the current script run, in order
    exception     \* <<>> or <<name of the call whose exception reached Streamlit>>

vars == <<modelFile, cache, heap, widgets, used, button, model, input_data, pc,
          prob, metric, banner, explainer, shap_exp, shap_single, plot, calls,
          exception>>

(***************************************************************************)
(* Bounds of the exploration.                                              *)
(***************************************************************************)
\* user interactions (widget edits + button clicks) explored per session
MaxInteractions == 2
\* how many rotations / omissions of the written feature order the model file may declare
MaxShift == 1
\* how many distinct SHAP value patterns the opaque explainer may return
MaxSeed == 3

(***************************************************************************)
(* Helpers on sequences.                                                   *)
(***************************************************************************)
Range(s) == {s[i] : i \in DOMAIN s}

Abs(x) == IF x < 0 THEN -x ELSE x

Min(a, b) == IF a < b THEN a ELSE b

RECURSIVE SeqSum(_)
SeqSum(s) == IF s = <<>> THEN 0 ELSE s[1] + SeqSum(Tail(s))

Rotate(s, k) == [i \in 1..Len(s) |-> s[((i - 1 + k) % Len(s)) + 1]]

Reverse(s) == [i \in 1..Len(s) |-> s[Len(s) + 1 - i]]

Omit(s, k) == [i \in 1..(Len(s) - 1) |-> IF i < k THEN s[i] ELSE s[i + 1]]

(***************************************************************************)
(* The 15 features, in the order the script writes them (lines 69-83).     *)
(***************************************************************************)
KnownNames ==
    << "Pneumonia", "COPD", "age", "heartrate", "SBP", "respiratoryrate", "spo2",
       "temperature", "WBC", "Albumin", "ALT", "BUN", "sodium", "Plateletcount",
       "SOFA" >>

BoolNames == {"Pneumonia", "COPD"}

\* st.checkbox defaults to False; st.number_input(label, min, max, default): the defaults
WidgetDefaults ==
    [Pneumonia |-> FALSE, COPD |-> FALSE, age |-> 65, heartrate |-> 90, SBP |-> 120,
     respiratoryrate |-> 20, spo2 |-> 96, temperature |-> 368, WBC |-> 80,
     Albumin |-> 35, ALT |-> 30, BUN |-> 20, sodium |-> 135, Plateletcount |-> 200,
     SOFA |-> 6]

\* the largest value each widget accepts (a checkbox: True)
WidgetMax ==
    [Pneumonia |-> TRUE, COPD |-> TRUE, age |-> 120, heartrate |-> 200, SBP |-> 250,
     respiratoryrate |-> 60, spo2 |-> 100, temperature |-> 420, WBC |-> 1000,
     Albumin |-> 60, ALT |-> 10000, BUN |-> 300, sodium |-> 160, Plateletcount |-> 1000,
     SOFA |-> 24]

\* the values a user is explored entering into widget n: its default and the top of its range
WidgetChoices(n) == {WidgetDefaults[n], WidgetMax[n]}

(***************************************************************************)
(* The classifier file.  feature_names_in_ is whatever the pickled         *)
(* estimator was fitted with: permutations of the written order, lists     *)
(* that omit a known name, and a list naming a feature the form lacks.     *)
(***************************************************************************)
PermutedOrders ==
    {Rotate(KnownNames, k) : k \in 0..MaxShift} \cup {Reverse(KnownNames)}

OmittingOrders ==
    {Omit(KnownNames, Len(KnownNames) - k) : k \in 0..MaxShift}

ForeignOrders ==
    {[KnownNames EXCEPT ![Len(KnownNames)] = "lactate"]}

FeatureOrders == PermutedOrders \cup OmittingOrders \cup ForeignOrders

IsKnownSchema(names) ==
    /\ Len(names) = Len(KnownNames)
    /\ Range(names) = Range(KnownNames)

(***************************************************************************)
(* load_model (lines 29-33): st.cache_resource runs joblib.load on the     *)
(* first call and hands back the stored object on every later call.        *)
(* c is the cache entry, file the pickled feature list, h the heap.        *)
(***************************************************************************)
NewId(h) == Cardinality(h) + 1

LoadModelUncached(c, file, h) ==
    [kind |-> "classifier", id |-> NewId(h), wraps |-> 0, feature_names_in_ |-> file]

load_model(c, file, h) ==
    IF c = <<>>
    THEN [kind |-> "classifier", id |-> NewId(h), wraps |-> 0, feature_names_in_ |-> file]
    ELSE c[1]

(***************************************************************************)
(* Lines 68-84: the dict literal and pd.DataFrame([dict], columns=...).    *)
(* A cell is <<v>>; a column the dict has no key for is NaN, <<>>; a key   *)
(* that is not among the columns is dropped.                               *)
(***************************************************************************)
NaN == <<>>

\* int(x) of a checkbox value
int(b) == IF b THEN 1 ELSE 0

RawDictShifted(w) ==
    [n \in Range(KnownNames) |->
        IF n \in BoolNames THEN int(w[n])
        ELSE IF n = "SBP" THEN w["heartrate"]
        ELSE IF n = "heartrate" THEN w["SBP"]
        ELSE w[n]]

RawDict(w) ==
    [n \in Range(KnownNames) |-> IF n \in BoolNames THEN int(w[n]) ELSE w[n]]

DataFrameWrittenOrder(records, columns) ==
    [columns |-> KnownNames,
     rows |-> [r \in 0..(Len(records) - 1) |->
                 [c \in Range(KnownNames) |-> <<records[r + 1][c]>>]]]

DataFrame(records, columns) ==
    [columns |-> columns,
     rows |-> [r \in 0..(Len(records) - 1) |->
                 [c \in Range(columns) |->
                     IF c \in DOMAIN records[r + 1] THEN <<records[r + 1][c]>> ELSE NaN]]]

HasNaN(df) == \E r \in DOMAIN df.rows : \E c \in DOMAIN df.rows[r] : df.rows[r][c] = NaN

(***************************************************************************)
(* Line 89: the handler body runs only in the script run in which          *)
(* st.button returns True, i.e. the run caused by the click.               *)
(***************************************************************************)
ButtonAlways(clicked) == TRUE

ButtonFired(clicked) == clicked

(***************************************************************************)
(* Line 92: model.predict_proba(input_data)[0][1].  The classifier is      *)
(* opaque: for one record it returns one row [P(class 0), P(class 1)].     *)
(***************************************************************************)
ProbValues == {0, 199900, 200000, 499960, 500000, 1000000}

predict_proba(df, p) == [r \in DOMAIN df.rows |-> [k \in 0..1 |-> IF k = 1 THEN p ELSE 1000000 - p]]

PositiveProb(proba) == proba[0][1]

(***************************************************************************)
(* Line 97: f"{prob:.2%}" - the probability as a percentage rounded to two *)
(* decimals; the result is the number of hundredths of a percent shown.    *)
(***************************************************************************)
FormatPercent(p) ==
    LET q == p \div 100
        r == p % 100
    IN  IF 2 * r > 100 \/ (2 * r = 100 /\ q % 2 = 1) THEN q + 1 ELSE q

(***************************************************************************)
(* Lines 100-105: the risk banner.                                         *)
(***************************************************************************)
HighThreshold == 500000

ModerateThreshold == 200000

RiskBannerExclusive(p) ==
    IF p > HighThreshold
    THEN [call |-> "error", tier |-> "High",
          text |-> "Immediate evaluation and early aggressive intervention recommended."]
    ELSE IF p > ModerateThreshold
    THEN [call |-> "warning", tier |-> "Moderate",
          text |-> "Close monitoring and early warning advised."]
    ELSE [call |-> "success", tier |-> "Low",
          text |-> "Continue routine ICU care and observation."]

RiskBannerCrossed(p) ==
    IF p >= HighThreshold
    THEN [call |-> "error", tier |-> "High",
          text |-> "Immediate evaluation and early aggressive intervention recommended."]
    ELSE IF p >= ModerateThreshold
    THEN [call |-> "warning", tier |-> "Moderate",
          text |-> "Continue routine ICU care and observation."]
    ELSE [call |-> "success", tier |-> "Low",
          text |-> "Close monitoring and early warning advised."]

RiskBanner(p) ==
    IF p >= HighThreshold
    THEN [call |-> "error", tier |-> "High",
          text |-> "Immediate evaluation and early aggressive intervention recommended."]
    ELSE IF p >= ModerateThreshold
    THEN [call |-> "warning", tier |-> "Moderate",
          text |-> "Close monitoring and early warning advised."]
    ELSE [call |-> "success", tier |-> "Low",
          text |-> "Continue routine ICU care and observation."]

(***************************************************************************)
(* Lines 115-116: shap.Explainer(model, feature_names=...) builds a new    *)
(* explainer object around the classifier; calling it on the record gives  *)
(* an Explanation whose values are indexed [sample, feature, class].  The  *)
(* explainer is opaque: Phi stands for the contributions it attributes to  *)
(* the positive class; for a two-class forest the other class gets the     *)
(* negated contributions, and base value + contributions = model output.   *)
(***************************************************************************)
NewExplainer(m, h) == [kind |-> "explainer", id |-> NewId(h), wraps |-> m.id]

Phi(seed, f) == 10000 * (((seed * f) % 7) - 3)

Explanation(df, proba, seed) ==
    LET n == Len(df.columns)
        phi == [f \in 1..n |-> Phi(seed, f)]
    IN  [values |-> [r \in DOMAIN df.rows |->
                       [f \in 1..n |-> [k \in 0..1 |-> IF k = 1 THEN phi[f] ELSE -phi[f]]]],
         base_values |-> [r \in DOMAIN df.rows |->
                       [k \in 0..1 |-> IF k = 1 THEN proba[r][k] - SeqSum(phi)
                                                ELSE proba[r][k] + SeqSum(phi)]],
         feature_names |-> df.columns]

(***************************************************************************)
(* Line 119: shap_exp[0, :, 1] - sample 0, every feature, class 1.         *)
(***************************************************************************)
SliceOtherClass(e) ==
    [values |-> [f \in DOMAIN e.values[0] |-> e.values[0][f][0]],
     base_values |-> e.base_values[0][0],
     feature_names |-> e.feature_names]

SliceExplanation(e) ==
    [values |-> [f \in DOMAIN e.values[0] |-> e.values[0][f][1]],
     base_values |-> e.base_values[0][1],
     feature_names |-> e.feature_names]

(***************************************************************************)
(* Line 122: shap.plots.waterfall(shap_single, show=False).  max_display   *)
(* is left at its default, 10.  The plot orders the features by            *)
(* argsort(-abs(values)); when there are more features than max_display it *)
(* draws max_display - 1 of them and folds the rest into one               *)
(* "<k> other features" row.  numpy's default argsort is not a stable      *)
(* sort, so the order among equal magnitudes is either direction.          *)
(***************************************************************************)
MaxDisplay == 10

\* whether index i comes before index j in argsort(-abs(v))
Before(v, i, j, stable) ==
    \/ Abs(v[i]) > Abs(v[j])
    \/ /\ Abs(v[i]) = Abs(v[j])
       /\ IF stable THEN i < j ELSE i > j

RECURSIVE ArgsortFrom(_, _, _)
ArgsortFrom(v, rest, stable) ==
    IF rest = {} THEN <<>>
    ELSE LET i == CHOOSE x \in rest : \A y \in rest \ {x} : Before(v, x, y, stable)
         IN  <<i>> \o ArgsortFrom(v, rest \ {i}, stable)

Argsort(v, stable) == ArgsortFrom(v, DOMAIN v, stable)

Waterfall(e, stable) ==
    LET n == Len(e.values)
        order == Argsort(e.values, stable)
        num_features == Min(MaxDisplay, n)
        num_individual == IF num_features = n THEN num_features ELSE num_features - 1
        shown == [p \in 1..num_individual |-> e.values[order[p]]]
    IN  [rows |-> [p \in 1..num_individual |->
                     [feature |-> e.feature_names[order[p]], value |-> e.values[order[p]]]],
         other |-> IF num_features < n
                   THEN <<[count |-> n - num_features + 1,
                           value |-> SeqSum(e.values) - SeqSum(shown)]>>
                   ELSE <<>>]

(***************************************************************************)
(* An exception nothing catches (the script has no try/except) ends the    *)
(* script run and reaches Streamlit, which reports it.                     *)
(***************************************************************************)
Swallowed(call) == [pc |-> "waiting", exception |-> <<>>]

Raised(call) == [pc |-> "raised", exception |-> <<call>>]

(***************************************************************************)
(* One entry of the log of library calls of the current script run.        *)
(***************************************************************************)
Call(fn, arg, result, raised) ==
    [fn |-> fn, arg |-> arg, result |-> result, raised |-> raised]

(***************************************************************************)
(* Lines 29-89: the top of the script, run on every rerun with the widget  *)
(* values w; clicked says whether this rerun was caused by the button.     *)
(* Everything a previous run displayed is gone.                            *)
(***************************************************************************)
RunScript(w, clicked) ==
    LET m == load_model(cache, modelFile, heap)
        df == DataFrame(<<RawDict(w)>>, m.feature_names_in_)
    IN  /\ cache' = <<m>>
        /\ heap' = heap \cup {[kind |-> m.kind, id |-> m.id, wraps |-> m.wraps]}
        /\ model' = m
        /\ widgets' = w
        /\ input_data' = df
        /\ button' = clicked
        /\ calls' = <<Call("DataFrame", <<>>, <<df>>, FALSE)>>
        /\ pc' = IF ButtonFired(clicked) THEN "predict" ELSE "waiting"
        /\ prob' = <<>>
        /\ metric' = <<>>
        /\ banner' = <<>>
        /\ explainer' = <<>>
        /\ shap_exp' = <<>>
        /\ shap_single' = <<>>
        /\ plot' = <<>>
        /\ exception' = <<>>

\* the session is open and the first script run (default widgets, no click) is over
Init ==
    /\ modelFile \in FeatureOrders
    /\ LET m == load_model(<<>>, modelFile, {})
           df == DataFrame(<<RawDict(WidgetDefaults)>>, m.feature_names_in_)
       IN  /\ cache = <<m>>
           /\ heap = {[kind |-> m.kind, id |-> m.id, wraps |-> m.wraps]}
           /\ model = m
           /\ input_data = df
           /\ calls = <<Call("DataFrame", <<>>, <<df>>, FALSE)>>
    /\ widgets = WidgetDefaults
    /\ used = 0
    /\ button = FALSE
    /\ pc = "waiting"
    /\ prob = <<>>
    /\ metric = <<>>
    /\ banner = <<>>
    /\ explainer = <<>>
    /\ shap_exp = <<>>
    /\ shap_single = <<>>
    /\ plot = <<>>
    /\ exception = <<>>

ScriptOver == pc \in {"waiting", "raised"}

\* the user changes one widget: Streamlit reruns the script, the button reads False
EditWidget ==
    /\ ScriptOver
    /\ used < MaxInteractions
    /\ \E n \in Range(KnownNames) : \E v \in WidgetChoices(n) \ {widgets[n]} :
          RunScript([widgets EXCEPT ![n] = v], FALSE)
    /\ used' = used + 1
    /\ UNCHANGED modelFile

\* the user clicks "Predict & Explain (SHAP)": Streamlit reruns the script, the button reads True
ClickPredict ==
    /\ ScriptOver
    /\ used < MaxInteractions
    /\ RunScript(widgets, TRUE)
    /\ used' = used + 1
    /\ UNCHANGED modelFile

(***************************************************************************)
(* Lines 92-105: predict_proba, the metric and the risk banner.  A         *)
(* classifier handed a NaN cell either rejects it (ValueError) or scores   *)
(* it, depending on the scikit-learn build.                                *)
(***************************************************************************)
PredictRaises ==
    /\ pc = "predict"
    /\ HasNaN(input_data)
    /\ calls' = Append(calls, Call("predict_proba", <<input_data>>, <<>>, TRUE))
    /\ pc' = Raised("predict_proba").pc
    /\ exception' = Raised("predict_proba").exception
    /\ UNCHANGED <<modelFile, cache, heap, widgets, used, button, model, input_data,
                   prob, metric, banner, explainer, shap_exp, shap_single, plot>>

Predict ==
    /\ pc = "predict"
    /\ \E p \in ProbValues :
          LET proba == predict_proba(input_data, p)
          IN  /\ calls' = Append(calls, Call("predict_proba", <<input_data>>, <<proba>>, FALSE))
              /\ prob' = <<PositiveProb(proba)>>
              /\ metric' = <<[label |-> "Probability of Septic Shock Within 12 Hours",
                              value |-> FormatPercent(PositiveProb(proba))]>>
              /\ banner' = <<RiskBanner(PositiveProb(proba))>>
    /\ pc' = "explain"
    /\ UNCHANGED <<modelFile, cache, heap, widgets, used, button, model, input_data,
                   explainer, shap_exp, shap_single, plot, exception>>

(***************************************************************************)
(* Lines 114-116: a new explainer is built and called on input_data.  The  *)
(* call either returns an Explanation or raises (for instance the tree     *)
(* explainer's additivity check).                                          *)
(***************************************************************************)
ExplainRaises ==
    /\ pc = "explain"
    /\ explainer' = <<NewExplainer(model, heap)>>
    /\ heap' = heap \cup {NewExplainer(model, heap)}
    /\ calls' = calls \o <<Call("Explainer", <<model.id>>, <<NewExplainer(model, heap).id>>, FALSE),
                           Call("explainer", <<input_data>>, <<>>, TRUE)>>
    /\ pc' = Raised("explainer").pc
    /\ exception' = Raised("explainer").exception
    /\ UNCHANGED <<modelFile, cache, widgets, used, button, model, input_data,
                   prob, metric, banner, shap_exp, shap_single, plot>>

Explain ==
    /\ pc = "explain"
    /\ explainer' = <<NewExplainer(model, heap)>>
    /\ heap' = heap \cup {NewExplainer(model, heap)}
    /\ calls' = calls \o <<Call("Explainer", <<model.id>>, <<NewExplainer(model, heap).id>>, FALSE),
                           Call("explainer", <<input_data>>, <<>>, FALSE)>>
    /\ \E seed \in 1..MaxSeed :
          shap_exp' = <<Explanation(input_data, predict_proba(input_data, prob[1]), seed)>>
    /\ pc' = "slice"
    /\ UNCHANGED <<modelFile, cache, widgets, used, button, model, input_data,
                   prob, metric, banner, shap_single, plot, exception>>

(***************************************************************************)
(* Lines 119-124: the slice, the waterfall plot, st.pyplot.                *)
(***************************************************************************)
Present ==
    /\ pc = "slice"
    /\ shap_single' = <<SliceExplanation(shap_exp[1])>>
    /\ \E stable \in BOOLEAN :
          plot' = <<Waterfall(SliceExplanation(shap_exp[1]), stable)>>
    /\ calls' = Append(calls, Call("waterfall", <<SliceExplanation(shap_exp[1])>>, <<>>, FALSE))
    /\ pc' = "waiting"
    /\ UNCHANGED <<modelFile, cache, heap, widgets, used, button, model, input_data,
                   prob, metric, banner, explainer, shap_exp, exception>>

Next ==
    \/ EditWidget
    \/ ClickPredict
    \/ PredictRaises
    \/ Predict
    \/ ExplainRaises
    \/ Explain
    \/ Present

Spec == Init /\ [][Next]_vars

(***************************************************************************)
(* Properties.                                                             *)
(***************************************************************************)
TierRank(t) == IF t = "Low" THEN 0 ELSE IF t = "Moderate" THEN 1 ELSE 2

CallsOf(fn) == {i \in DOMAIN calls : calls[i].fn = fn}

Built(kind) == {o \in heap : o.kind = kind}

\* C1: whenever a risk banner is shown, exactly one tier is shown and it is High
\* exactly when prob >= 0.50, Moderate exactly when 0.20 <= prob < 0.50 and Low
\* exactly when prob < 0.20 (so 0.50 is High and 0.20 is Moderate); no smaller
\* probability gets a higher tier.
C1_TierThresholds ==
    /\ Len(banner) <= 1
    /\ banner # <<>> =>
          LET p == prob[1]
              t == banner[1].tier
          IN  /\ t \in {"High", "Moderate", "Low"}
              /\ (t = "High") <=> (p >= 500000)
              /\ (t = "Moderate") <=> (200000 <= p /\ p < 500000)
              /\ (t = "Low") <=> (p < 200000)
              /\ \A q \in ProbValues :
                    q <= p => TierRank(RiskBanner(q).tier) <= TierRank(t)

C1_Witness ==
    /\ banner # <<>>
    /\ prob = <<500000>>
    /\ banner[1].tier = "High"

\* C2 (as stated): the banner of each tier carries the recommendation the
\* specification quotes for it, Low being "Continue routine care and observation."
C2_SpecTexts ==
    banner # <<>> =>
        banner[1].text =
            (IF banner[1].tier = "High"
             THEN "Immediate evaluation and early aggressive intervention recommended."
             ELSE IF banner[1].tier = "Moderate"
             THEN "Close monitoring and early warning advised."
             ELSE "Continue routine care and observation.")

\* C2 (amended): the banner of each tier carries a fixed recommendation, which
\* for Low is "Continue routine ICU care and observation."; the recommendation
\* shown is always the one of the tier shown, and that tier is the one of prob.
C2_CodeTexts ==
    banner # <<>> =>
        /\ banner[1].tier =
              (IF prob[1] >= 500000 THEN "High"
               ELSE IF prob[1] >= 200000 THEN "Moderate" ELSE "Low")
        /\ banner[1].text =
              (IF banner[1].tier = "High"
               THEN "Immediate evaluation and early aggressive intervention recommended."
               ELSE IF banner[1].tier = "Moderate"
               THEN "Close monitoring and early warning advised."
               ELSE "Continue routine ICU care and observation.")

C2_Witness ==
    /\ banner # <<>>
    /\ banner[1].tier = "Low"
    /\ prob = <<199900>>

\* C3 (as stated): in a request whose classifier does not declare exactly the 15
\* known feature names, building the record fails and predict_proba is not called.
C3_SchemaMismatch ==
    (button /\ ~IsKnownSchema(model.feature_names_in_)) =>
        /\ \E i \in CallsOf("DataFrame") : calls[i].raised
        /\ CallsOf("predict_proba") = {}

\* C4: when the classifier declares a permutation of the 15 known names, the
\* record has one row whose columns are exactly that list, in that order.
C4_ColumnOrder ==
    IsKnownSchema(model.feature_names_in_) =>
        /\ input_data.columns = model.feature_names_in_
        /\ Len(input_data.columns) = 15
        /\ DOMAIN input_data.rows = {0}
        /\ DOMAIN input_data.rows[0] = Range(KnownNames)

C4_Witness ==
    /\ used > 0
    /\ model.feature_names_in_ = Reverse(KnownNames)
    /\ input_data.columns[1] = "SOFA"
    /\ input_data.columns[15] = "Pneumonia"

\* C5: with such a classifier, the record holds 0 or 1 for the two checkboxes
\* (False -> 0, True -> 1) and, under every other name, the value of the widget
\* of that name.
C5_Values ==
    IsKnownSchema(model.feature_names_in_) =>
        \A n \in Range(KnownNames) :
            input_data.rows[0][n] =
                (IF n \in BoolNames
                 THEN (IF widgets[n] THEN <<1>> ELSE <<0>>)
                 ELSE <<widgets[n]>>)

C5_Witness ==
    /\ IsKnownSchema(model.feature_names_in_)
    /\ widgets["Pneumonia"]
    /\ input_data.rows[0]["Pneumonia"] = <<1>>
    /\ input_data.rows[0]["COPD"] = <<0>>

\* C6: the attribution shown is the slice of the explainer's output for sample 0
\* and class 1, class 1 being the class whose probability is the one shown; the
\* explainer's output has no other sample, and every row of the plot is a value
\* of that slice.
C6_Slice ==
    shap_single # <<>> =>
        LET e == shap_exp[1]
            s == shap_single[1]
        IN  /\ DOMAIN e.values = {0}
            /\ DOMAIN s.values = DOMAIN e.values[0]
            /\ \A f \in DOMAIN s.values : s.values[f] = e.values[0][f][1]
            /\ s.base_values = e.base_values[0][1]
            /\ \A i \in CallsOf("predict_proba") : prob[1] = calls[i].result[1][0][1]
            /\ plot # <<>> =>
                  \A r \in DOMAIN plot[1].rows :
                      \E f \in DOMAIN e.values[0] :
                          /\ plot[1].rows[r].feature = e.feature_names[f]
                          /\ plot[1].rows[r].value = e.values[0][f][1]

C6_Witness ==
    /\ shap_single # <<>>
    /\ plot # <<>>
    /\ prob = <<200000>>
    /\ \E f \in DOMAIN shap_exp[1].values[0] :
          shap_exp[1].values[0][f][0] # shap_exp[1].values[0][f][1]

\* C7: a call that raised is the last call of its script run and its exception
\* is what reached Streamlit; after a failed predict_proba nothing of the request
\* (probability, banner, explainer, attribution, plot) exists; after a failed
\* explanation no attribution and no plot exists.
C7_NoRecovery ==
    /\ \A i \in DOMAIN calls :
          calls[i].raised =>
              /\ i = Len(calls)
              /\ exception = <<calls[i].fn>>
              /\ pc = "raised"
    /\ (pc = "raised") <=> (exception # <<>>)
    /\ exception = <<"predict_proba">> =>
          /\ prob = <<>> /\ metric = <<>> /\ banner = <<>>
          /\ explainer = <<>> /\ shap_exp = <<>> /\ shap_single = <<>> /\ plot = <<>>
    /\ exception = <<"explainer">> =>
          /\ shap_exp = <<>> /\ shap_single = <<>> /\ plot = <<>>

C7_Witness ==
    /\ button
    /\ exception = <<"predict_proba">>
    /\ calls[Len(calls)].raised

C9_FullRanking ==
    plot # <<>> =>
        LET rows == plot[1].rows
            s == shap_single[1]
            Pos(r) == CHOOSE f \in DOMAIN s.feature_names : s.feature_names[f] = rows[r].feature
        IN  /\ Len(rows) = Len(s.values)
            /\ plot[1].other = <<>>
            /\ \A f \in DOMAIN s.values :
                  \E r \in DOMAIN rows :
                      rows[r].feature = s.feature_names[f] /\ rows[r].value = s.values[f]
            /\ \A a, b \in DOMAIN rows :
                  a < b =>
                      \/ Abs(rows[a].value) > Abs(rows[b].value)
                      \/ Abs(rows[a].value) = Abs(rows[b].value) /\ Pos(a) < Pos(b)

\* C10: in one script run the record is built once; predict_proba and the
\* explainer are both handed that record, which is still the script's
\* input_data; the banner's tier and the metric's text both come from the one
\* value prob; and no library call beyond building the record is made unless
\* the button fired.
C10_SameRecord ==
    /\ CallsOf("DataFrame") = {1}
    /\ calls[1].result = <<input_data>>
    /\ \A i \in CallsOf("predict_proba") \cup CallsOf("explainer") :
          calls[i].arg = <<input_data>>
    /\ banner # <<>> =>
          /\ metric # <<>>
          /\ metric[1].value = FormatPercent(prob[1])
          /\ banner[1].tier =
                (IF prob[1] >= 500000 THEN "High"
                 ELSE IF prob[1] >= 200000 THEN "Moderate" ELSE "Low")
    /\ (Len(calls) > 1 \/ pc # "waiting") => button

C10_Witness ==
    /\ button
    /\ pc = "waiting"
    /\ plot # <<>>
    /\ CallsOf("predict_proba") = {2}
    /\ CallsOf("explainer") = {4}

====
